---- MODULE Spec2Model ----
(***************************************************************************)
(* Model of the NYC taxi explorer front end: the MapView page (geometry    *)
(* load, hourly demand fetch, zone click) and the AnalyticsPanel it        *)
(* renders (per-zone metrics fetch).  React state is the VARIABLES; each   *)
(* event handler or promise continuation, together with the effects that   *)
(* re-run because of the state it sets, is one action.                     *)
(***************************************************************************)
EXTENDS Integers, Sequences, FiniteSets, TLC

\* ---------------------------------------------------------------- bounds
\* number of user events (hour changes, zone clicks) in one session
MaxEvents == 3
\* number of hours above the initial one that the slider is moved over
HourSpan == 1
\* longest location_id string of a geometry document
MaxIdLen == 2
\* most features of a geometry document
MaxFeatures == 2
\* how far from a stop of the paint expressions the sample counts go
Spread == 1

\* ------------------------------------------------------------- options
\* JavaScript null / undefined / NaN: the empty tuple; a present value x
\* is the one-element tuple <<x>>.
None == <<>>
Some(x) == <<x>>
NaN == <<>>
isNaN(x) == x = NaN

\* a null error message
NULL == "null"

\* ------------------------------------------------------------- strings
\* A string is a sequence of one-character strings.
Digits == <<"0", "1", "2", "3", "4", "5", "6", "7", "8", "9">>

IsDigit(c) == \E d \in 1..10 : Digits[d] = c

DigitVal(c) == (CHOOSE d \in 1..10 : Digits[d] = c) - 1

IsSpace(c) == c = " "

RECURSIVE SkipSpaces(_)
SkipSpaces(s) ==
  IF s # <<>> /\ IsSpace(Head(s)) THEN SkipSpaces(Tail(s)) ELSE s

\* value of the longest digit prefix of s, continuing from acc
RECURSIVE DigitPrefix(_, _)
DigitPrefix(s, acc) ==
  IF s # <<>> /\ IsDigit(Head(s))
  THEN DigitPrefix(Tail(s), acc * 10 + DigitVal(Head(s)))
  ELSE acc

\* parseInt(s, 10): leading white space is skipped, a sign is accepted, the
\* longest prefix of digits is converted and whatever follows it is
\* ignored; NaN when there is no digit to convert.
parseInt(str) ==
  LET t == SkipSpaces(str)
      signed == t # <<>> /\ Head(t) \in {"-", "+"}
      u == IF signed THEN Tail(t) ELSE t
  IN  IF u = <<>> \/ ~IsDigit(Head(u)) THEN NaN
      ELSE IF signed /\ Head(t) = "-" THEN Some(0 - DigitPrefix(u, 0))
      ELSE Some(DigitPrefix(u, 0))

RECURSIVE NatToString(_)
NatToString(n) ==
  IF n < 10 THEN <<Digits[n + 1]>>
  ELSE NatToString(n \div 10) \o <<Digits[(n % 10) + 1]>>

\* Number.prototype.toString() of an integer
toString(n) == IF n < 0 THEN <<"-">> \o NatToString(0 - n) ELSE NatToString(n)

\* ------------------------------------------------ the geometry document
\* characters a location_id is drawn from
Chars == {"1", "2", "a"}

RECURSIVE StringsOfLen(_)
StringsOfLen(n) ==
  IF n = 0 THEN {<<>>}
  ELSE {<<c>> \o t : c \in Chars, t \in StringsOfLen(n - 1)}

IdStrings == UNION {StringsOfLen(n) : n \in 0..MaxIdLen}

\* the zone name of the feature at position i of a document
ZoneName(i) == <<"Z">> \o NatToString(i)
BoroughName(i) == <<"B">> \o NatToString(i)

\* a feature as served: properties.location_id, zone and borough, and
\* the geometry
RawFeature(i, id) ==
  [location_id |-> id, zone |-> ZoneName(i), borough |-> BoroughName(i),
   geometry |-> "Polygon"]

\* the feature f without the field named lacking, if it has one of that name
Without(f, lacking) == [k \in DOMAIN f \ {lacking} |-> f[k]]

\* { ...f, [key]: val }
With(f, key, val) ==
  [k \in DOMAIN f \cup {key} |-> IF k = key THEN val ELSE f[k]]

RECURSIVE IdLists(_)
IdLists(n) ==
  IF n = 0 THEN {<<>>}
  ELSE {Append(l, id) : l \in IdLists(n - 1), id \in IdStrings}

FeatureList(ids) == [i \in 1..Len(ids) |-> RawFeature(i, ids[i])]

\* what GET /taxi_zones.geojson can deliver: a response that is not ok, a
\* body that is not JSON, or a JSON value with a type and a features field
\* that is an array (Some) or not (None)
HttpError == [ok |-> FALSE, json |-> FALSE, type |-> "", features |-> None]
BadJson == [ok |-> TRUE, json |-> FALSE, type |-> "", features |-> None]
Document(type, features) ==
  [ok |-> TRUE, json |-> TRUE, type |-> type, features |-> features]

Collections(most) ==
  {Document("FeatureCollection", Some(FeatureList(ids))) :
     ids \in UNION {IdLists(n) : n \in 0..most}}

AllAssets(most) ==
  Collections(most) \cup
  {HttpError, BadJson,
   Document("Feature", Some(<<>>)),
   Document("Feature", Some(FeatureList(<<<<"1">>>>))),
   Document("Feature", None),
   Document("FeatureCollection", None)}

\* the features at position i that have the location_id "1" or "a" and lack
\* their zone, their borough, their geometry or nothing
PartialFeatures(i) ==
  {Without(RawFeature(i, id), lacking) :
     id \in {<<"1">>, <<"a">>},
     lacking \in {"", "zone", "borough", "geometry"}}

RECURSIVE PartialLists(_)
PartialLists(n) ==
  IF n = 0 THEN {<<>>}
  ELSE {Append(l, f) : l \in PartialLists(n - 1), f \in PartialFeatures(n)}

\* the feature collections of at most so many such features
PartialAssets(most) ==
  {Document("FeatureCollection", Some(fs)) :
     fs \in UNION {PartialLists(n) : n \in 0..most}}

\* the documents of an interactive session: the zones 1 and 2, and a
\* document whose second feature has the location_id "a"
ValidDoc == Document("FeatureCollection", Some(FeatureList(<<<<"1">>, <<"2">>>>)))
CorruptDoc == Document("FeatureCollection", Some(FeatureList(<<<<"1">>, <<"a">>>>)))
SessionAssets == {ValidDoc, CorruptDoc, HttpError}

\* ---------------------------------------------------------- loadZones
\* the Error thrown for a feature whose location_id is NaN
InvalidLocationId(f) ==
  [message |-> "Invalid location_id", location_id |-> f.location_id,
   zone |-> IF "zone" \in DOMAIN f THEN f.zone
            ELSE <<"u","n","d","e","f","i","n","e","d">>]
PlainError(msg) == [message |-> msg, location_id |-> <<>>, zone |-> <<>>]

\* the feature as stored: LocationID is the parsed id printed again
TransformFeature(f) ==
  With(With(f, "LocationID", toString(parseInt(f.location_id)[1])),
       "location_id", f.location_id)

\* data.features.map(...): the first feature whose id is NaN throws
FirstInvalid(fs) ==
  LET bad == {i \in 1..Len(fs) : isNaN(parseInt(fs[i].location_id))}
  IN  IF bad = {} THEN 0 ELSE CHOOSE i \in bad : \A j \in bad : i <= j

\* loadZones as it would be if a bad feature were skipped, not thrown for
loadZonesSkipping(asset) ==
  IF ~asset.ok
    THEN [ok |-> FALSE, thrown |-> PlainError("Failed to load taxi zones")]
  ELSE IF ~asset.json
    THEN [ok |-> FALSE,
          thrown |-> PlainError("Invalid JSON format in taxi zones file")]
  ELSE IF asset.type # "FeatureCollection" \/ asset.features = None
    THEN [ok |-> FALSE, thrown |-> PlainError("Invalid GeoJSON data")]
  ELSE LET fs == SelectSeq(asset.features[1],
                           LAMBDA f : ~isNaN(parseInt(f.location_id)))
       IN  [ok |-> TRUE,
            features |-> [i \in 1..Len(fs) |-> TransformFeature(fs[i])]]

\* loadZones as it would be if it did not look at data.type
loadZonesAnyType(asset) ==
  IF ~asset.ok
    THEN [ok |-> FALSE, thrown |-> PlainError("Failed to load taxi zones")]
  ELSE IF ~asset.json
    THEN [ok |-> FALSE,
          thrown |-> PlainError("Invalid JSON format in taxi zones file")]
  ELSE IF asset.features = None
    THEN [ok |-> FALSE, thrown |-> PlainError("Invalid GeoJSON data")]
  ELSE LET fs == asset.features[1]
           k == FirstInvalid(fs)
       IN  IF k # 0
             THEN [ok |-> FALSE, thrown |-> InvalidLocationId(fs[k])]
             ELSE [ok |-> TRUE,
                   features |-> [i \in 1..Len(fs) |-> TransformFeature(fs[i])]]

\* the try block of loadZones: either the transformed collection or the
\* error it throws
loadZones(asset) ==
  IF ~asset.ok
    THEN [ok |-> FALSE, thrown |-> PlainError("Failed to load taxi zones")]
  ELSE IF ~asset.json
    THEN [ok |-> FALSE,
          thrown |-> PlainError("Invalid JSON format in taxi zones file")]
  ELSE IF asset.type # "FeatureCollection" \/ asset.features = None
    THEN [ok |-> FALSE, thrown |-> PlainError("Invalid GeoJSON data")]
  ELSE LET fs == asset.features[1]
           k == FirstInvalid(fs)
       IN  IF k # 0
             THEN [ok |-> FALSE, thrown |-> InvalidLocationId(fs[k])]
             ELSE [ok |-> TRUE,
                   features |-> [i \in 1..Len(fs) |-> TransformFeature(fs[i])]]

\* ------------------------------------------------------------ the API
\* the requests the api module sends; an argument left out is None
fetchDemand(hour) == [path |-> "demand", hour |-> Some(hour)]

fetchTripPerformance(zoneId, hour) ==
  [path |-> "trip-performance", zoneId |-> zoneId, hour |-> hour]

fetchPopularRoutes(zoneId, hour) ==
  [path |-> "popular-routes", zoneId |-> zoneId, hour |-> hour, limit |-> 10]

fetchPaymentAnalysis(zoneId, hour) ==
  [path |-> "payment-analysis", zoneId |-> zoneId, hour |-> hour]

\* bodies GET /demand answers with: arrays of {PULocationID, n_trips}
Row(id, n) == [PULocationID |-> id, n_trips |-> n]
DemandBodies == {<<Row(1, 120), Row(3, 7)>>, <<Row(1, 30), Row(2, 500)>>}

\* --------------------------------------------------------------- state
InitHour == 17
InitPitch == 45
MinHour == 0
MaxHour == 23
\* the hours the slider is moved over in a session
Hours == {h \in MinHour..MaxHour : h >= InitHour /\ h <= InitHour + HourSpan}

VARIABLES
  mounted,          \* the page has been mounted and its effects have run
  asset,            \* what /taxi_zones.geojson delivers
  geoPending,       \* loadZones is awaiting its fetch
  console,          \* the error loadZones logged last, if any
  hour,             \* MapView: hour
  counts,           \* MapView: counts, zone id -> trips
  error,            \* MapView: error
  rawZonesData,     \* MapView: rawZonesData (None, or the feature list)
  selectedZone,     \* MapView: selectedZone (None, or the PopupInfo)
  tripPerformance,  \* AnalyticsPanel: result of the request with this number
  popularRoutes,    \*   (0: the initial empty array)
  paymentAnalysis,
  loading,          \* AnalyticsPanel: loading
  panelError,       \* AnalyticsPanel: error
  dReqs,            \* the demand requests, in the order they were issued
  mReqs,            \* the metrics requests, in the order they were issued
  tipInfo,          \* tip-fetching MapView: tipInfo, zone id -> average
  tReqs,            \* the tips requests, in the order they were issued
  pitch,            \* viewState.pitch: 0 is the 2D view
  zoneData,         \* AnalyticsPanel: zoneData, zone id -> ZoneData
  zonePending,      \* AnalyticsPanel: loadZoneData is in flight
  events            \* user events so far

mapVars == <<hour, counts, error, rawZonesData, selectedZone>>
panelVars == <<tripPerformance, popularRoutes, paymentAnalysis, loading,
               panelError>>
loadVars == <<mounted, asset, geoPending, console>>
tipVars == <<tipInfo, tReqs>>
zoneVars == <<zoneData, zonePending>>
vars == <<loadVars, mapVars, panelVars, tipVars, zoneVars, pitch, dReqs, mReqs,
          events>>

\* ------------------------------------------------------------ MapView
\* the default as it would be with counts[id] ?? 1
CountOfNullishOne(m, id) == IF id \in DOMAIN m THEN m[id] ELSE 1

\* counts[id] || 0
CountOf(m, id) == IF id \in DOMAIN m /\ m[id] # 0 THEN m[id] ELSE 0

\* the then-handler of the demand fetch: m[r.PULocationID] = r.n_trips for
\* every row in turn, so the last row of an id is the one that stays
BuildCounts(rows) ==
  [id \in {rows[i].PULocationID : i \in DOMAIN rows} |->
     LET last == CHOOSE i \in DOMAIN rows :
                   /\ rows[i].PULocationID = id
                   /\ \A j \in DOMAIN rows : rows[j].PULocationID = id => j <= i
     IN  rows[last].n_trips]

\* the join as it would be if it read the counts by the position of the
\* feature in the collection
enhancedZonesDataByPosition(raw, m) ==
  IF raw = None THEN None
  ELSE Some([i \in DOMAIN raw[1] |->
               With(raw[1][i], "trips", CountOf(m, i))])

\* the memoized join of the geometry with the counts
enhancedZonesData(raw, m) ==
  IF raw = None THEN None
  ELSE Some([i \in DOMAIN raw[1] |->
               With(raw[1][i], "trips",
                    CountOf(m, parseInt(raw[1][i].LocationID)[1]))])

\* what the component returns: the placeholder while there is no joined
\* data, else the map with the banner (the error, if any) and the controls
Render(raw, m, err) ==
  IF enhancedZonesData(raw, m) = None
  THEN [view |-> "Loading taxi zones data...", banner |-> NULL,
        controls |-> FALSE]
  ELSE [view |-> "map", banner |-> err, controls |-> TRUE]

\* the demand effect as it would be without its guard
DemandEffectUnguarded(raw, h, err, reqs) ==
  [error |-> NULL,
   dReqs |-> Append(reqs, [call |-> fetchDemand(h), status |-> "pending",
                           rows |-> <<>>])]

\* the demand effect, run on mount and when hour or rawZonesData changes
DemandEffect(raw, h, err, reqs) ==
  IF raw = None THEN [error |-> err, dReqs |-> reqs]
  ELSE [error |-> NULL,
        dReqs |-> Append(reqs, [call |-> fetchDemand(h), status |-> "pending",
                                rows |-> <<>>])]

\* the zoneId prop MapView passes: selectedZone?.locationId ?? null
ZoneIdProp(sel) == IF sel = None THEN None ELSE Some(sel[1].locationId)

\* ----------------------------------------------------- AnalyticsPanel
\* the ZoneData loadZoneData stores for the feature f; a property the
\* feature lacks is undefined in it
ZoneEntry(f) ==
  [k \in ({"zone", "borough"} \cap DOMAIN f) \cup {"LocationID"} |->
     IF k = "LocationID" THEN parseInt(f.location_id)[1] ELSE f[k]]

\* the features forEach does not skip: those whose location_id is a number
Parsed(fs) == {i \in DOMAIN fs : ~isNaN(parseInt(fs[i].location_id))}

\* the lookup as it would be if the position of a feature were its key
ZoneMapByPosition(fs) == [i \in Parsed(fs) |-> ZoneEntry(fs[i])]

\* the lookup as it would be if an id that is there already were kept
ZoneMapFirstWins(fs) ==
  [id \in {parseInt(fs[i].location_id)[1] : i \in Parsed(fs)} |->
     LET first == CHOOSE i \in Parsed(fs) :
                    /\ parseInt(fs[i].location_id)[1] = id
                    /\ \A j \in Parsed(fs) :
                         parseInt(fs[j].location_id)[1] = id => i <= j
     IN  ZoneEntry(fs[first])]

\* zoneMap after data.features.forEach: zoneMap[locationId] is assigned for
\* every feature in turn, so the last feature of an id is the one that stays
ZoneMap(fs) ==
  [id \in {parseInt(fs[i].location_id)[1] : i \in Parsed(fs)} |->
     LET last == CHOOSE i \in Parsed(fs) :
                   /\ parseInt(fs[i].location_id)[1] = id
                   /\ \A j \in Parsed(fs) :
                        parseInt(fs[j].location_id)[1] = id => j <= i
     IN  ZoneEntry(fs[last])]

\* the try block of loadZoneData: the lookup, or nothing when the response
\* is not ok, the body is not JSON or data.features is not an array
loadZoneData(doc) ==
  IF ~doc.ok \/ ~doc.json \/ doc.features = None
  THEN [ok |-> FALSE, zoneMap |-> <<>>]
  ELSE [ok |-> TRUE, zoneMap |-> ZoneMap(doc.features[1])]

\* !zoneId
NotZoneId(zoneId) == zoneId = None \/ zoneId[1] = 0

\* the metrics effect, run on mount and when zoneId or hour changes:
\* fetchData sets loading, clears the error and starts the three fetches
PanelEffect(zoneId, h, p) ==
  IF NotZoneId(zoneId) THEN p
  ELSE [loading |-> TRUE, panelError |-> NULL,
        mReqs |-> Append(p.mReqs,
                    [zoneId |-> zoneId[1], hour |-> h,
                     calls |-> <<fetchTripPerformance(zoneId[1], None),
                                 fetchPopularRoutes(zoneId[1], Some(h)),
                                 fetchPaymentAnalysis(zoneId[1], Some(h))>>,
                     status |-> "pending", rejected |-> 0])]

Panel == [loading |-> loading, panelError |-> panelError, mReqs |-> mReqs]

\* the continuation of the awaited Promise.all: the three results are
\* stored, and finally loading is reset
FetchDataDone(p, i) ==
  [tripPerformance |-> i, popularRoutes |-> i, paymentAnalysis |-> i,
   loading |-> FALSE, panelError |-> p.panelError]

\* the catch block as it would be without the finally block after it
FetchDataCatchNoFinally(p) ==
  [tripPerformance |-> p.tripPerformance, popularRoutes |-> p.popularRoutes,
   paymentAnalysis |-> p.paymentAnalysis,
   loading |-> p.loading, panelError |-> "Failed to load analytics data"]

\* the catch block as it would be if it emptied the stored results
FetchDataCatchEmptying(p) ==
  [tripPerformance |-> 0, popularRoutes |-> 0, paymentAnalysis |-> 0,
   loading |-> FALSE, panelError |-> "Failed to load analytics data"]

\* the catch block of fetchData, and finally loading is reset
FetchDataCatch(p) ==
  [tripPerformance |-> p.tripPerformance, popularRoutes |-> p.popularRoutes,
   paymentAnalysis |-> p.paymentAnalysis,
   loading |-> FALSE, panelError |-> "Failed to load analytics data"]

Stored ==
  [tripPerformance |-> tripPerformance, popularRoutes |-> popularRoutes,
   paymentAnalysis |-> paymentAnalysis, loading |-> loading,
   panelError |-> panelError]

\* the then-handler as it would be if it merged the rows into the counts
DemandThenMerging(m, err, rows) ==
  [counts |-> [id \in DOMAIN m \cup DOMAIN BuildCounts(rows) |->
                 IF id \in DOMAIN BuildCounts(rows)
                 THEN BuildCounts(rows)[id] ELSE m[id]],
   error |-> err]

\* the then-handler and the catch-handler of the demand fetch
DemandThen(m, err, rows) == [counts |-> BuildCounts(rows), error |-> err]

\* the catch-handler as it would be if it blanked the display
DemandCatchBlanking(m, err) ==
  [counts |-> <<>>,
   error |-> "Failed to load demand data. Please try again later."]

DemandCatch(m, err) ==
  [counts |-> m,
   error |-> "Failed to load demand data. Please try again later."]

\* handleZoneClick on the feature f of the rendered layer
handleZoneClick(f, m) ==
  LET locationId == parseInt(f.LocationID)[1]
  IN  Some([zone |-> f.zone, borough |-> f.borough,
            trips |-> CountOf(m, locationId), avgTip |-> None,
            locationId |-> locationId])

\* ---------------------------------------------------------------- Init
InitState ==
  /\ mounted = FALSE
  /\ geoPending = FALSE
  /\ console = None
  /\ hour = InitHour
  /\ counts = <<>>
  /\ error = NULL
  /\ rawZonesData = None
  /\ selectedZone = None
  /\ tripPerformance = 0
  /\ popularRoutes = 0
  /\ paymentAnalysis = 0
  /\ loading = FALSE
  /\ panelError = NULL
  /\ dReqs = <<>>
  /\ mReqs = <<>>
  /\ tipInfo = <<>>
  /\ tReqs = <<>>
  /\ pitch = InitPitch
  /\ zoneData = <<>>
  /\ zonePending = FALSE
  /\ events = 0

Init == asset \in SessionAssets /\ InitState

InitGeo == asset \in AllAssets(MaxFeatures) /\ InitState

InitPartial == asset \in PartialAssets(MaxFeatures) /\ InitState

\* ------------------------------------------------------------- actions
\* First render: loadZones starts its fetch; the demand effect runs and
\* returns at its guard.  The placeholder is returned, so neither the
\* controls nor the AnalyticsPanel exist yet.
Mount ==
  /\ ~mounted
  /\ mounted' = TRUE
  /\ geoPending' = TRUE
  /\ LET de == DemandEffect(rawZonesData, hour, error, dReqs)
     IN  error' = de.error /\ dReqs' = de.dReqs
  /\ UNCHANGED <<zoneVars, pitch, tipVars, asset, console, hour, counts, rawZonesData, selectedZone,
                 panelVars, mReqs, events>>

\* loadZones ran to setRawZonesData; the demand effect re-runs, and the
\* AnalyticsPanel is mounted and runs its metrics effect
GeometryLoaded ==
  /\ geoPending
  /\ loadZones(asset).ok
  /\ geoPending' = FALSE
  /\ zonePending' = TRUE
  /\ rawZonesData' = Some(loadZones(asset).features)
  /\ LET de == DemandEffect(rawZonesData', hour, error, dReqs)
         pe == PanelEffect(ZoneIdProp(selectedZone), hour, Panel)
     IN  /\ error' = de.error
         /\ dReqs' = de.dReqs
         /\ loading' = pe.loading
         /\ panelError' = pe.panelError
         /\ mReqs' = pe.mReqs
  /\ UNCHANGED <<zoneData, pitch, tipVars, mounted, asset, console, hour, counts, selectedZone,
                 tripPerformance, popularRoutes, paymentAnalysis, events>>

\* loadZoneData of the AnalyticsPanel ran to its end: either setZoneData
\* with the lookup, or the catch block
ZoneDataLoaded ==
  /\ zonePending
  /\ zonePending' = FALSE
  /\ zoneData' = IF loadZoneData(asset).ok THEN loadZoneData(asset).zoneMap
                 ELSE zoneData
  /\ UNCHANGED <<loadVars, mapVars, panelVars, tipVars, pitch, dReqs, mReqs,
                 events>>

\* loadZones threw: the catch block logs the error and sets the message
GeometryFailed ==
  /\ geoPending
  /\ ~loadZones(asset).ok
  /\ geoPending' = FALSE
  /\ console' = Some(loadZones(asset).thrown)
  /\ error' = "Failed to load taxi zones data"
  /\ UNCHANGED <<zoneVars, pitch, tipVars, mounted, asset, hour, counts, rawZonesData, selectedZone,
                 panelVars, dReqs, mReqs, events>>

\* the hour slider is moved to h: the demand effect and the metrics effect
\* re-run with the new hour
HourChange(h) ==
  /\ Render(rawZonesData, counts, error).controls
  /\ events < MaxEvents
  /\ h # hour
  /\ hour' = h
  /\ events' = events + 1
  /\ LET de == DemandEffect(rawZonesData, h, error, dReqs)
         pe == PanelEffect(ZoneIdProp(selectedZone), h, Panel)
     IN  /\ error' = de.error
         /\ dReqs' = de.dReqs
         /\ loading' = pe.loading
         /\ panelError' = pe.panelError
         /\ mReqs' = pe.mReqs
  /\ UNCHANGED <<zoneVars, pitch, tipVars, loadVars, counts, rawZonesData, selectedZone,
                 tripPerformance, popularRoutes, paymentAnalysis>>

\* a click on the i-th feature of the rendered layer; the metrics effect
\* re-runs only when the zoneId prop changes
ZoneClick(i) ==
  /\ Render(rawZonesData, counts, error).view = "map"
  /\ events < MaxEvents
  /\ events' = events + 1
  /\ selectedZone' =
       handleZoneClick(enhancedZonesData(rawZonesData, counts)[1][i], counts)
  /\ LET pe == IF ZoneIdProp(selectedZone') # ZoneIdProp(selectedZone)
               THEN PanelEffect(ZoneIdProp(selectedZone'), hour, Panel)
               ELSE Panel
     IN  /\ loading' = pe.loading
         /\ panelError' = pe.panelError
         /\ mReqs' = pe.mReqs
  /\ UNCHANGED <<zoneVars, pitch, tipVars, loadVars, hour, counts, error, rawZonesData,
                 tripPerformance, popularRoutes, paymentAnalysis, dReqs>>

\* the answer to a demand request as it would be if the then-handler wrote
\* the trips into the features of rawZonesData
DemandResolveJoining(i, rows) ==
  /\ dReqs[i].status = "pending"
  /\ dReqs' = [dReqs EXCEPT ![i].status = "ok", ![i].rows = rows]
  /\ LET d == DemandThen(counts, error, rows)
     IN  /\ counts' = d.counts
         /\ error' = d.error
         /\ rawZonesData' = enhancedZonesData(rawZonesData, d.counts)
  /\ UNCHANGED <<zoneVars, pitch, tipVars, loadVars, hour, selectedZone,
                 panelVars, mReqs, events>>

\* the i-th demand request is answered with rows
DemandResolve(i, rows) ==
  /\ dReqs[i].status = "pending"
  /\ dReqs' = [dReqs EXCEPT ![i].status = "ok", ![i].rows = rows]
  /\ LET d == DemandThen(counts, error, rows)
     IN  counts' = d.counts /\ error' = d.error
  /\ UNCHANGED <<zoneVars, pitch, tipVars, loadVars, hour, rawZonesData, selectedZone, panelVars,
                 mReqs, events>>

\* the i-th demand request fails
DemandReject(i) ==
  /\ dReqs[i].status = "pending"
  /\ dReqs' = [dReqs EXCEPT ![i].status = "failed"]
  /\ LET d == DemandCatch(counts, error)
     IN  counts' = d.counts /\ error' = d.error
  /\ UNCHANGED <<zoneVars, pitch, tipVars, loadVars, hour, rawZonesData, selectedZone, panelVars,
                 mReqs, events>>

SetStored(n) ==
  /\ tripPerformance' = n.tripPerformance
  /\ popularRoutes' = n.popularRoutes
  /\ paymentAnalysis' = n.paymentAnalysis
  /\ loading' = n.loading
  /\ panelError' = n.panelError

\* the three fetches of the i-th metrics request have all been answered
MetricsResolve(i) ==
  /\ mReqs[i].status = "pending"
  /\ mReqs' = [mReqs EXCEPT ![i].status = "ok"]
  /\ SetStored(FetchDataDone(Stored, i))
  /\ UNCHANGED <<zoneVars, pitch, tipVars, loadVars, mapVars, dReqs, events>>

\* the k-th of the three fetches of the i-th metrics request is rejected,
\* which rejects the Promise.all awaited by fetchData
MetricsReject(i, k) ==
  /\ mReqs[i].status = "pending"
  /\ k \in DOMAIN mReqs[i].calls
  /\ mReqs' = [mReqs EXCEPT ![i].status = "failed", ![i].rejected = k]
  /\ SetStored(FetchDataCatch(Stored))
  /\ UNCHANGED <<zoneVars, pitch, tipVars, loadVars, mapVars, dReqs, events>>

Next ==
  \/ Mount
  \/ GeometryLoaded
  \/ GeometryFailed
  \/ \E h \in Hours : HourChange(h)
  \/ \E i \in 1..MaxFeatures : rawZonesData # None /\ i \in DOMAIN rawZonesData[1] /\ ZoneClick(i)
  \/ \E i \in DOMAIN dReqs, rows \in DemandBodies : DemandResolve(i, rows)
  \/ \E i \in DOMAIN dReqs : DemandReject(i)
  \/ \E i \in DOMAIN mReqs : MetricsResolve(i)
  \/ \E i \in DOMAIN mReqs, k \in 1..3 : MetricsReject(i, k)
  \/ ZoneDataLoaded

Spec == Init /\ [][Next]_vars

\* The panel side of a session: the demand requests are issued and stay in
\* flight.  No handler of the AnalyticsPanel reads the counts or the error
\* of the map.
NextPanel ==
  \/ Mount
  \/ GeometryLoaded
  \/ GeometryFailed
  \/ \E h \in Hours : HourChange(h)
  \/ \E i \in 1..MaxFeatures : rawZonesData # None /\ i \in DOMAIN rawZonesData[1] /\ ZoneClick(i)
  \/ \E i \in DOMAIN mReqs : MetricsResolve(i)
  \/ \E i \in DOMAIN mReqs, k \in 1..3 : MetricsReject(i, k)

SpecPanel == Init /\ [][NextPanel]_vars

\* The map side of a session: the metrics requests are issued and stay in
\* flight.  No handler of the map reads the state of the AnalyticsPanel.
NextDemand ==
  \/ Mount
  \/ GeometryLoaded
  \/ GeometryFailed
  \/ \E h \in Hours : HourChange(h)
  \/ \E i \in 1..MaxFeatures : rawZonesData # None /\ i \in DOMAIN rawZonesData[1] /\ ZoneClick(i)
  \/ \E i \in DOMAIN dReqs, rows \in DemandBodies : DemandResolve(i, rows)
  \/ \E i \in DOMAIN dReqs : DemandReject(i)

SpecDemand == Init /\ [][NextDemand]_vars

\* the slider as it would be without its min and max attributes
SliderValuesUnbounded == (MinHour - 1)..(MaxHour + 1)

\* the values the hour slider emits: <input type="range" min={0} max={23}>
SliderValues == MinHour..MaxHour

\* the ends of the slider and the hours around the initial one
EdgeHours == {h \in SliderValues : h \in Hours \/ h <= MinHour \/ h >= MaxHour}

\* The requests of a session, all left in flight, with the slider moved to
\* its ends.
NextHours ==
  \/ Mount
  \/ GeometryLoaded
  \/ GeometryFailed
  \/ \E h \in EdgeHours : HourChange(h)
  \/ \E i \in 1..MaxFeatures : rawZonesData # None /\ i \in DOMAIN rawZonesData[1] /\ ZoneClick(i)

SpecHours == Init /\ [][NextHours]_vars

\* the geometry load over every bounded document, followed by the first
\* demand request
NextGeo ==
  \/ Mount
  \/ GeometryLoaded
  \/ GeometryFailed
  \/ \E i \in DOMAIN dReqs, rows \in DemandBodies : DemandResolve(i, rows)
  \/ \E i \in DOMAIN dReqs : DemandReject(i)
  \/ ZoneDataLoaded

SpecGeo == InitGeo /\ [][NextGeo]_vars

\* the same over the documents whose features lack fields
SpecPartial == InitPartial /\ [][NextGeo]_vars

\* ------------------------------------------------ the paint encoding
\* Numbers that need not be whole are pairs <<numerator, denominator>> in
\* lowest terms, with a positive denominator.
Whole(n) == <<n, 1>>
RECURSIVE Gcd(_, _)
Gcd(a, b) == IF b = 0 THEN a ELSE Gcd(b, a % b)
\* n / d in lowest terms, for d > 0
Ratio(n, d) ==
  LET g == Gcd(IF n < 0 THEN 0 - n ELSE n, d)
  IN  IF n < 0 THEN <<0 - ((0 - n) \div g), d \div g>>
      ELSE <<n \div g, d \div g>>
RatEq(a, b) == a = b
RatLeq(a, b) == a[1] * b[2] <= b[1] * a[2]

HexDigits == <<"0","1","2","3","4","5","6","7","8","9","A","B","C","D","E","F">>
HexVal(c) == (CHOOSE i \in DOMAIN HexDigits : HexDigits[i] = c) - 1

\* the colour "#RRGGBB", given by its six digits, as its three channels
Hex(d) ==
  [r |-> 16 * HexVal(d[1]) + HexVal(d[2]),
   g |-> 16 * HexVal(d[3]) + HexVal(d[4]),
   b |-> 16 * HexVal(d[5]) + HexVal(d[6])]

Stop(input, output) == [input |-> input, output |-> output]

\* the stops of colorExpression
ColorStops ==
  << Stop(0,     Hex(<<"F","F","E","D","A","0">>)),
     Stop(100,   Hex(<<"F","E","D","9","7","6">>)),
     Stop(500,   Hex(<<"F","E","B","2","4","C">>)),
     Stop(1000,  Hex(<<"F","D","8","D","3","C">>)),
     Stop(2000,  Hex(<<"F","C","4","E","2","A">>)),
     Stop(5000,  Hex(<<"E","3","1","A","1","C">>)),
     Stop(10000, Hex(<<"B","D","0","0","2","6">>)),
     Stop(20000, Hex(<<"8","0","0","0","2","6">>)) >>

\* heightExpression with the heights of two stops exchanged
HeightStopsExchanged ==
  << Stop(0, 0), Stop(100, 50), Stop(500, 200), Stop(1000, 100),
     Stop(2000, 300), Stop(5000, 400), Stop(10000, 500), Stop(20000, 600) >>

\* heightExpression with a second stop of its own, at 50
HeightStopsOwnInputs ==
  << Stop(0, 0), Stop(50, 50), Stop(500, 100), Stop(1000, 200),
     Stop(2000, 300), Stop(5000, 400), Stop(10000, 500), Stop(20000, 600) >>

\* the stops of heightExpression
HeightStops ==
  << Stop(0, 0), Stop(100, 50), Stop(500, 100), Stop(1000, 200),
     Stop(2000, 300), Stop(5000, 400), Stop(10000, 500), Stop(20000, 600) >>

\* ["coalesce", v, d]: the first value that is not null
coalesce(v, d) == IF v = None THEN d ELSE v[1]

\* the stop at or below x, the first stop for an x below all of them
StopBelow(stops, x) ==
  IF x < stops[1].input THEN 1
  ELSE CHOOSE i \in DOMAIN stops :
         /\ stops[i].input <= x
         /\ \A j \in DOMAIN stops : stops[j].input <= x => j <= i

\* the value at x on the line through (x0, y0) and (x1, y1)
Lerp(x0, y0, x1, y1, x) ==
  Ratio(y0 * (x1 - x0) + (y1 - y0) * (x - x0), x1 - x0)

\* ["interpolate", ["linear"], x, ...stops] as it would be if the line of
\* the first and of the last pair of stops were continued outside them
interpolateContinued(stops, x) ==
  LET n == Len(stops)
      i == IF StopBelow(stops, x) = n THEN n - 1 ELSE StopBelow(stops, x)
  IN  Lerp(stops[i].input, stops[i].output,
           stops[i + 1].input, stops[i + 1].output, x)

\* ["interpolate", ["linear"], x, ...stops] over numeric outputs: the
\* output of the first stop at or below it, of the last stop at or above
\* it, and the line between the two neighbouring stops in between
interpolate(stops, x) ==
  LET n == Len(stops)
      i == StopBelow(stops, x)
  IN  IF x <= stops[1].input THEN Whole(stops[1].output)
      ELSE IF x >= stops[n].input THEN Whole(stops[n].output)
      ELSE Lerp(stops[i].input, stops[i].output,
                stops[i + 1].input, stops[i + 1].output, x)

\* the stops of one channel of a colour expression; colours are
\* interpolated channel by channel
Channel(stops, ch) ==
  [i \in DOMAIN stops |-> Stop(stops[i].input, stops[i].output[ch])]

\* colorExpression and heightExpression evaluated on a feature of the
\* joined data
colorExpression(f) ==
  LET x == coalesce(Some(f.trips), 0)
  IN  [r |-> interpolate(Channel(ColorStops, "r"), x),
       g |-> interpolate(Channel(ColorStops, "g"), x),
       b |-> interpolate(Channel(ColorStops, "b"), x)]

heightExpression(f) == interpolate(HeightStops, coalesce(Some(f.trips), 0))

\* the layers as they would be if the flat fill had a colour of its own
LayerFlatOneColor(p, f) ==
  IF p = 0
  THEN [id |-> "zones",
        color |-> [r |-> Whole(ColorStops[1].output.r),
                   g |-> Whole(ColorStops[1].output.g),
                   b |-> Whole(ColorStops[1].output.b)],
        height |-> None]
  ELSE [id |-> "zones-extrusion", color |-> colorExpression(f),
        height |-> Some(heightExpression(f))]

\* the layer of the zones source: the flat fill at pitch 0, else the
\* extrusion, which alone has a height
Layer(p, f) ==
  IF p = 0
  THEN [id |-> "zones", color |-> colorExpression(f), height |-> None]
  ELSE [id |-> "zones-extrusion", color |-> colorExpression(f),
        height |-> Some(heightExpression(f))]

\* what is painted for each feature of the joined data
Painted(raw, m, p) ==
  LET joined == enhancedZonesData(raw, m)[1]
  IN  [i \in DOMAIN joined |-> Layer(p, joined[i])]

\* the Show 3D View / Show 2D View button
ToggleView ==
  /\ Render(rawZonesData, counts, error).controls
  /\ pitch' = IF pitch = 0 THEN 45 ELSE 0
  /\ UNCHANGED <<zoneVars, loadVars, mapVars, panelVars, tipVars, dReqs, mReqs, events>>

\* the pitches a drag of the map leaves it at
Pitches == {0, 30, 45}

\* handleViewStateChange: the map was moved, here tilted to the pitch p
ViewStateChange(p) ==
  /\ Render(rawZonesData, counts, error).view = "map"
  /\ p # pitch
  /\ pitch' = p
  /\ UNCHANGED <<zoneVars, loadVars, mapVars, panelVars, tipVars, dReqs, mReqs, events>>

\* the counts a demand body gives a zone: the stops and the counts up to
\* Spread away from them, below the first and above the last stop too
SampleCounts ==
  {ColorStops[i].input + d : i \in DOMAIN ColorStops, d \in (0 - Spread)..Spread}

\* the demand bodies over the two zones of the valid document: each zone is
\* left out or has a sample count
SampleRows(id) == {<<>>} \cup {<<Row(id, n)>> : n \in SampleCounts}
EncodeBodies == {a \o b : a \in SampleRows(1), b \in SampleRows(2)}

\* The valid document is loaded, the first demand request is answered with
\* a body of sample counts, and the view is toggled and tilted.
NextEncode ==
  \/ Mount
  \/ GeometryLoaded
  \/ \E i \in DOMAIN dReqs, rows \in EncodeBodies : DemandResolve(i, rows)
  \/ ToggleView
  \/ \E p \in Pitches : ViewStateChange(p)

\* the page before it is mounted, with the valid document on the server
InitEncode == asset = ValidDoc /\ InitState

SpecEncode == InitEncode /\ [][NextEncode]_vars

\* A session with the valid document in which every kind of event
\* happens: hour changes, zone clicks, view changes, the load of the panel,
\* and the answers to the first demand request and to the first metrics
\* request; the later requests stay in flight.
NextFrame ==
  \/ Mount
  \/ GeometryLoaded
  \/ ZoneDataLoaded
  \/ \E h \in Hours : HourChange(h)
  \/ \E i \in 1..MaxFeatures : rawZonesData # None /\ i \in DOMAIN rawZonesData[1] /\ ZoneClick(i)
  \/ \E rows \in DemandBodies : dReqs # <<>> /\ DemandResolve(1, rows)
  \/ dReqs # <<>> /\ DemandReject(1)
  \/ mReqs # <<>> /\ MetricsResolve(1)
  \/ \E k \in 1..3 : mReqs # <<>> /\ MetricsReject(1, k)
  \/ ToggleView
  \/ \E p \in Pitches : ViewStateChange(p)

SpecFrame == InitEncode /\ [][NextFrame]_vars

\* ------------------------------------------ the tip-fetching MapView
\* The earlier MapView has no AnalyticsPanel: a click fetches the average
\* tip of the zone unless tipInfo has an entry for it, and the side panel
\* has a Clear Selection button.  Its loadZones and its demand effect are
\* the ones above.
fetchTips(zoneId) == [path |-> "tips", zoneId |-> zoneId]

\* what GET /tips/{zoneId} answers with: tipData?.average ?? null, in cents
TipAverages == {None, Some(250)}

\* tipInfo[id] ?? null
TipOf(tips, id) == IF id \in DOMAIN tips THEN tips[id] ELSE None

\* { ...prev, [id]: avgTip }
WithTip(tips, id, avgTip) ==
  [j \in DOMAIN tips \cup {id} |-> IF j = id THEN avgTip ELSE tips[j]]

\* handleZoneClick as it would be if it fetched again for an entry that is
\* null
handleZoneClickTipsRetrying(f, m, tips, reqs) ==
  LET locationId == parseInt(f.LocationID)[1]
  IN  [selectedZone |->
         Some([zone |-> f.zone, borough |-> f.borough,
               trips |-> CountOf(m, locationId),
               avgTip |-> TipOf(tips, locationId)]),
       tReqs |->
         IF locationId \notin DOMAIN tips \/ tips[locationId] = None
         THEN Append(reqs, [call |-> fetchTips(locationId),
                            status |-> "pending"])
         ELSE reqs]

\* handleZoneClick of the tip-fetching MapView on the feature f: the
\* selection, and the tips request if tipInfo[locationId] is undefined
handleZoneClickTips(f, m, tips, reqs) ==
  LET locationId == parseInt(f.LocationID)[1]
  IN  [selectedZone |->
         Some([zone |-> f.zone, borough |-> f.borough,
               trips |-> CountOf(m, locationId),
               avgTip |-> TipOf(tips, locationId)]),
       tReqs |->
         IF locationId \notin DOMAIN tips
         THEN Append(reqs, [call |-> fetchTips(locationId),
                            status |-> "pending"])
         ELSE reqs]

\* the then-handler of fetchTips as it would be without the test of prev
TipsThenUnguarded(sel, tips, id, avgTip) ==
  [tipInfo |-> WithTip(tips, id, avgTip),
   selectedZone |->
     IF sel = None THEN Some([avgTip |-> avgTip])
     ELSE Some([sel[1] EXCEPT !.avgTip = avgTip])]

\* the then-handler of fetchTips: the entry is written, and the selection,
\* if there is one, gets the average: prev ? { ...prev, avgTip } : null
TipsThen(sel, tips, id, avgTip) ==
  [tipInfo |-> WithTip(tips, id, avgTip),
   selectedZone |->
     IF sel = None THEN None ELSE Some([sel[1] EXCEPT !.avgTip = avgTip])]

\* the catch-handler as it would be if it wrote null for every zone
TipsCatchClearing(sel, tips, id) ==
  [tipInfo |-> [j \in DOMAIN tips \cup {id} |-> None], selectedZone |-> sel]

\* the catch-handler of fetchTips: the entry is written as null
TipsCatch(sel, tips, id) ==
  [tipInfo |-> WithTip(tips, id, None), selectedZone |-> sel]

\* what the tip-fetching MapView returns: the placeholder while zonesData
\* is null, else the map, the hour slider and, with a zone selected, the
\* Clear Selection button
RenderTips(raw, sel) ==
  IF raw = None
  THEN [view |-> "Loading taxi zones data...", controls |-> FALSE,
        clear |-> FALSE]
  ELSE [view |-> "map", controls |-> TRUE, clear |-> sel # None]

\* the hour slider is moved to h: the demand effect re-runs
HourChangeTips(h) ==
  /\ RenderTips(rawZonesData, selectedZone).controls
  /\ events < MaxEvents
  /\ h # hour
  /\ hour' = h
  /\ events' = events + 1
  /\ LET de == DemandEffect(rawZonesData, h, error, dReqs)
     IN  error' = de.error /\ dReqs' = de.dReqs
  /\ UNCHANGED <<zoneVars, pitch, loadVars, counts, rawZonesData, selectedZone, panelVars,
                 tipVars, mReqs>>

\* a click on the i-th feature of the zones layer
ZoneClickTips(i) ==
  /\ RenderTips(rawZonesData, selectedZone).view = "map"
  /\ events < MaxEvents
  /\ events' = events + 1
  /\ LET c == handleZoneClickTips(rawZonesData[1][i], counts, tipInfo, tReqs)
     IN  selectedZone' = c.selectedZone /\ tReqs' = c.tReqs
  /\ UNCHANGED <<zoneVars, pitch, loadVars, hour, counts, error, rawZonesData, panelVars,
                 tipInfo, dReqs, mReqs>>

\* the Clear Selection button: setSelectedZone(null)
ClearSelection ==
  /\ RenderTips(rawZonesData, selectedZone).clear
  /\ events < MaxEvents
  /\ events' = events + 1
  /\ selectedZone' = None
  /\ UNCHANGED <<zoneVars, pitch, loadVars, hour, counts, error, rawZonesData, panelVars,
                 tipVars, dReqs, mReqs>>

\* the i-th tips request is answered with the average avgTip
TipsResolve(i, avgTip) ==
  /\ tReqs[i].status = "pending"
  /\ tReqs' = [tReqs EXCEPT ![i].status = "ok"]
  /\ LET t == TipsThen(selectedZone, tipInfo, tReqs[i].call.zoneId, avgTip)
     IN  tipInfo' = t.tipInfo /\ selectedZone' = t.selectedZone
  /\ UNCHANGED <<zoneVars, pitch, loadVars, hour, counts, error, rawZonesData, panelVars,
                 dReqs, mReqs, events>>

\* the i-th tips request fails
TipsReject(i) ==
  /\ tReqs[i].status = "pending"
  /\ tReqs' = [tReqs EXCEPT ![i].status = "failed"]
  /\ LET t == TipsCatch(selectedZone, tipInfo, tReqs[i].call.zoneId)
     IN  tipInfo' = t.tipInfo /\ selectedZone' = t.selectedZone
  /\ UNCHANGED <<zoneVars, pitch, loadVars, hour, counts, error, rawZonesData, panelVars,
                 dReqs, mReqs, events>>

\* a session of the tip-fetching MapView
NextTips ==
  \/ Mount
  \/ GeometryLoaded
  \/ GeometryFailed
  \/ \E h \in Hours : HourChangeTips(h)
  \/ \E i \in 1..MaxFeatures : rawZonesData # None /\ i \in DOMAIN rawZonesData[1] /\ ZoneClickTips(i)
  \/ ClearSelection
  \/ \E i \in DOMAIN dReqs, rows \in DemandBodies : DemandResolve(i, rows)
  \/ \E i \in DOMAIN dReqs : DemandReject(i)
  \/ \E i \in DOMAIN tReqs, avgTip \in TipAverages : TipsResolve(i, avgTip)
  \/ \E i \in DOMAIN tReqs : TipsReject(i)

SpecTips == Init /\ [][NextTips]_vars

TypeOK ==
  /\ hour \in MinHour..MaxHour
  /\ loading \in BOOLEAN
  /\ events \in 0..MaxEvents

\* ============================================================== claims
StoredBundle == <<tripPerformance, popularRoutes, paymentAnalysis>>
Bundle(i) == <<i, i, i>>
LastOf(reqs) == reqs[Len(reqs)]

\* C1: with a zone selected, when the metrics fetch for (z, h1) is followed
\* by the one for (z, h2) issued by an hour change, and both have been
\* answered, the stored performance, routes and payments are those of the
\* (z, h2) response, whichever arrived first.
C1_LaterHourWins ==
  \A i \in DOMAIN mReqs :
    ( /\ i + 1 = Len(mReqs)
      /\ mReqs[i].zoneId = mReqs[i + 1].zoneId
      /\ mReqs[i].hour # mReqs[i + 1].hour
      /\ mReqs[i].status = "ok"
      /\ mReqs[i + 1].status = "ok" )
    => StoredBundle = Bundle(i + 1)

\* C2: a successful metrics response changes the stored metrics only if the
\* zone and hour of its request are the selected zone and the current hour
\* when it arrives; the late response for a superseded zone is discarded.
C2_StaleResponseDiscarded ==
  [][\A i \in DOMAIN mReqs :
       ( /\ mReqs[i].status = "pending"
         /\ mReqs'[i].status = "ok"
         /\ StoredBundle' # StoredBundle )
       => /\ ZoneIdProp(selectedZone) = Some(mReqs[i].zoneId)
          /\ hour = mReqs[i].hour]_vars

\* C3: when the hour changes while the demand request of the previous hour
\* is in flight, then once both requests have been answered the counts are
\* the ones returned for the later hour, the hour of the hour control.
C3_LaterDemandWins ==
  \A i \in DOMAIN dReqs :
    ( /\ i + 1 = Len(dReqs)
      /\ dReqs[i].status = "ok"
      /\ dReqs[i + 1].status = "ok" )
    => /\ dReqs[i + 1].call.hour = Some(hour)
       /\ counts = BuildCounts(dReqs[i + 1].rows)

\* C4: with zone z selected at h1, then h2, the change back to h1 issues no
\* second request for (z, h1) when the first one was answered (its cache
\* entry is present), and shows the bundle obtained by that first request.
C4_ReturnToCachedHour ==
  [][\A i \in DOMAIN mReqs :
       ( /\ i + 1 = Len(mReqs)
         /\ mReqs[i].zoneId = mReqs[i + 1].zoneId
         /\ ZoneIdProp(selectedZone) = Some(mReqs[i].zoneId)
         /\ hour = mReqs[i + 1].hour
         /\ hour' = mReqs[i].hour
         /\ hour' # hour
         /\ mReqs[i].status = "ok" )
       => /\ mReqs' = mReqs
          /\ StoredBundle' = Bundle(i)]_vars

\* C5: when a demand request fails, the counts are left exactly as they
\* were and the error is set.
C5_FailedDemandKeepsCounts ==
  [][\A i \in DOMAIN dReqs :
       (dReqs[i].status = "pending" /\ dReqs'[i].status = "failed")
       => (counts' = counts /\ error' # NULL)]_vars

\* a demand request has failed after a snapshot was installed, and the
\* snapshot and the error are both there
C5_Witness ==
  /\ \E i \in DOMAIN dReqs : dReqs[i].status = "failed"
  /\ \E i \in DOMAIN dReqs :
       dReqs[i].status = "ok" /\ counts = BuildCounts(dReqs[i].rows)
  /\ error = "Failed to load demand data. Please try again later."

\* the features of the served document whose location_id parseInt turns
\* into NaN
Offending ==
  IF asset.ok /\ asset.json /\ asset.type = "FeatureCollection"
     /\ asset.features # None
  THEN {k \in DOMAIN asset.features[1] :
          isNaN(parseInt(asset.features[1][k].location_id))}
  ELSE {}

LoadEnded == mounted /\ ~geoPending

\* C6: when a feature of the document has a location_id that parseInt does
\* not turn into an integer, the load fails as a whole: rawZonesData stays
\* null in every state, and once the load has ended the error is set and
\* the error logged names the location_id and zone of the first such
\* feature.
C6_BadIdFailsWholeLoad ==
  Offending # {} =>
    /\ rawZonesData = None
    /\ LoadEnded =>
         /\ error = "Failed to load taxi zones data"
         /\ console # None
         /\ \E k \in Offending :
              /\ \A j \in Offending : k <= j
              /\ console[1].location_id = asset.features[1][k].location_id
              /\ console[1].zone = asset.features[1][k].zone

\* the load of a document whose first feature is valid and whose second
\* is not has ended
C6_Witness ==
  /\ LoadEnded
  /\ Offending = {2}
  /\ console # None

\* C7: after the geometry load has failed, what is rendered shows the
\* error, not the "Loading taxi zones data..." placeholder.
C7_GeometryErrorShown ==
  (LoadEnded /\ console # None) =>
    /\ Render(rawZonesData, counts, error).view # "Loading taxi zones data..."
    /\ Render(rawZonesData, counts, error).banner
         = "Failed to load taxi zones data"

\* C8: no demand request is issued before the geometry load has succeeded,
\* and none after it has failed.
C8_NoDemandWithoutGeometry ==
  (rawZonesData = None \/ console # None) => dReqs = <<>>

\* the load has failed, the demand effect has run, and nothing was asked
C8_Witness ==
  /\ LoadEnded
  /\ console # None
  /\ rawZonesData = None
  /\ dReqs = <<>>

IsZoneClick == events' = events + 1 /\ hour' = hour
IsHourChange == events' = events + 1 /\ hour' # hour

\* C9: every zone click, also one on the zone already selected, clears the
\* metrics error, sets loading and issues the metrics fetch for the clicked
\* zone at the current hour.
C9_EverySelectFetches ==
  [][IsZoneClick =>
       /\ panelError' = NULL
       /\ loading' = TRUE
       /\ Len(mReqs') = Len(mReqs) + 1
       /\ LastOf(mReqs').zoneId = selectedZone'[1].locationId
       /\ LastOf(mReqs').hour = hour
       /\ LastOf(mReqs').status = "pending"]_vars

\* C10: with zone z selected, a change of the hour to h sets loading and
\* issues the metrics fetches, each of them for zone z with hour h.
C10_HourChangeFetchesForHour ==
  [][(IsHourChange /\ selectedZone # None) =>
       /\ loading' = TRUE
       /\ Len(mReqs') = Len(mReqs) + 1
       /\ \A k \in DOMAIN LastOf(mReqs').calls :
            /\ LastOf(mReqs').calls[k].zoneId = selectedZone[1].locationId
            /\ LastOf(mReqs').calls[k].hour = Some(hour')]_vars

\* the i-th metrics request is the one of the current selection
IsCurrent(i) ==
  /\ selectedZone # None
  /\ mReqs[i].zoneId = selectedZone[1].locationId
  /\ mReqs[i].hour = hour

Rejected(i) == mReqs[i].status = "pending" /\ mReqs'[i].status = "failed"

\* C11: when the metrics fetch of the current selection fails, whichever
\* of its three fetches was rejected, the panel ends with the error set and
\* loading false, the zone still selected.
C11_FailedFetchEndsFailed ==
  [][\A i \in DOMAIN mReqs :
       (Rejected(i) /\ IsCurrent(i))
       => /\ panelError' = "Failed to load analytics data"
          /\ loading' = FALSE
          /\ selectedZone' = selectedZone]_vars

\* the second fetch (routes) of the request of the selected zone was
\* rejected while loading was shown; the panel shows the error
C11_Witness ==
  /\ mReqs # <<>>
  /\ LastOf(mReqs).status = "failed"
  /\ LastOf(mReqs).rejected = 2
  /\ IsCurrent(Len(mReqs))
  /\ panelError = "Failed to load analytics data"
  /\ ~loading

\* C12: the failure of a superseded metrics request, one whose zone or hour
\* is not the current selection's, changes neither the error nor loading.
C12_StaleFailureDropped ==
  [][\A i \in DOMAIN mReqs :
       (Rejected(i) /\ ~IsCurrent(i))
       => (panelError' = panelError /\ loading' = loading)]_vars

\* C14: while the metrics fetch of the current selection is unanswered and
\* no zone or hour event occurs, loading stays true.
C14_LoadingUntilAnswered ==
  [][( /\ mReqs # <<>>
       /\ IsCurrent(Len(mReqs))
       /\ LastOf(mReqs).status = "pending"
       /\ loading
       /\ events' = events
       /\ mReqs'[Len(mReqs)].status = "pending" )
     => loading']_vars

\* a step of the latest MapView that leaves no zone selected
ClearsSelection == Next /\ selectedZone' = None

\* C13: whenever a zone is selected the selection can be cleared, which
\* leaves no zone selected, and while no zone is selected no arriving
\* response selects one.
C13_ClearLeadsToIdle ==
  /\ []((selectedZone # None /\ events < MaxEvents) => ENABLED ClearsSelection)
  /\ [][(selectedZone = None /\ events' = events) => selectedZone' = None]_vars

\* The same two properties of the tip-fetching MapView, which has the Clear
\* Selection button: they hold there.
ClearLeadsToIdleTips ==
  /\ []((selectedZone # None /\ events < MaxEvents) => ENABLED ClearSelection)
  /\ [][(selectedZone = None /\ events' = events) => selectedZone' = None]_vars

\* the selection was cleared while its tips request was in flight, and the
\* request has been answered since: the entry is there, no zone is selected
ClearedThenAnswered ==
  /\ selectedZone = None
  /\ events = 2
  /\ Len(tReqs) = 1
  /\ tReqs[1].status = "ok"
  /\ tipInfo # <<>>

\* C15: a move of the slider to an hour that is zero or negative is met
\* with a validation error, and no demand request is issued for it.
C15_NonPositiveHourRejected ==
  [][(hour' # hour /\ hour' <= 0) => (dReqs' = dReqs /\ error' # NULL)]_vars

\* the hours the requests of a session carry
CarriedHours ==
  {dReqs[i].call.hour : i \in DOMAIN dReqs}
    \cup {mReqs[i].calls[k].hour : i \in DOMAIN mReqs, k \in 1..3}

\* C16: the current hour is an integer in [0, 23], and every hour a demand
\* or metrics request carries is in that range.
C16_HourInRange ==
  /\ hour \in 0..23
  /\ \A h \in CarriedHours : h # None => h[1] \in 0..23

\* the slider is at its lower end after a visit to its upper end, with a
\* zone selected: demand and metrics requests carry 23 and 0
C16_Witness ==
  /\ hour = 0
  /\ selectedZone # None
  /\ {Some(0), Some(23)} \subseteq {dReqs[i].call.hour : i \in DOMAIN dReqs}
  /\ {Some(0), Some(23)} \subseteq {mReqs[i].calls[2].hour : i \in DOMAIN mReqs}

\* the zone id of a feature of the loaded catalog
CatalogId(f) == parseInt(f.location_id)[1]

\* C17: with the catalog loaded, the joined data has one entry per catalog
\* feature, in order; the trip count of an entry is the count the current
\* snapshot has for the zone id of the feature, or 0 if it has none; ids of
\* the snapshot that are not in the catalog add no entry.
C17_JoinPerFeature ==
  rawZonesData # None =>
    LET catalog == rawZonesData[1]
        joined == enhancedZonesData(rawZonesData, counts)[1]
    IN  /\ Len(joined) = Len(catalog)
        /\ \A i \in DOMAIN catalog :
             /\ joined[i].location_id = catalog[i].location_id
             /\ joined[i].zone = catalog[i].zone
             /\ joined[i].trips =
                  IF CatalogId(catalog[i]) \in DOMAIN counts
                  THEN counts[CatalogId(catalog[i])] ELSE 0

\* a snapshot is stored that counts a zone of the catalog, lacks another
\* zone of the catalog and counts a zone the catalog does not have
C17_Witness ==
  /\ rawZonesData # None
  /\ LET ids == {CatalogId(rawZonesData[1][i]) : i \in DOMAIN rawZonesData[1]}
     IN  /\ ids \cap DOMAIN counts # {}
         /\ ids \ DOMAIN counts # {}
         /\ DOMAIN counts \ ids # {}

\* what is painted in the current state, and the count it is painted for
Paint == Painted(rawZonesData, counts, pitch)
Trips(i) == enhancedZonesData(rawZonesData, counts)[1][i].trips
Zones == IF rawZonesData = None THEN {} ELSE DOMAIN rawZonesData[1]
InSnapshot(i) == CatalogId(rawZonesData[1][i]) \in DOMAIN counts

SameColor(c, d) == RatEq(c.r, d.r) /\ RatEq(c.g, d.g) /\ RatEq(c.b, d.b)
SameHeight(h, k) == IF h = None \/ k = None THEN h = k ELSE RatEq(h[1], k[1])
IsColor(c, d) == SameColor(c, [r |-> Whole(Hex(d).r), g |-> Whole(Hex(d).g),
                               b |-> Whole(Hex(d).b)])
IsHeight(h, n) == h # None => RatEq(h[1], Whole(n))

\* C18: a zone whose id is not in the current snapshot is painted with the
\* colour and the height of a zone whose count in the snapshot is 0.
C18_AbsentAsZero ==
  \A i, j \in Zones :
    (~InSnapshot(i) /\ InSnapshot(j) /\ Trips(j) = 0)
    => /\ SameColor(Paint[i].color, Paint[j].color)
       /\ SameHeight(Paint[i].height, Paint[j].height)

\* in the 3D view, zone 1 is not in the stored snapshot and zone 2 has
\* count 0 in it
C18_Witness ==
  /\ Zones = {1, 2}
  /\ pitch # 0
  /\ dReqs # <<>> /\ dReqs[1].status = "ok"
  /\ ~InSnapshot(1)
  /\ InSnapshot(2) /\ counts[2] = 0

\* the bucket of a painted colour: the last stop of colorExpression the
\* colour has reached, red and green both falling along the stops
BucketOf(c) ==
  LET reached == {i \in DOMAIN ColorStops :
                    /\ RatLeq(c.r, Whole(ColorStops[i].output.r))
                    /\ RatLeq(c.g, Whole(ColorStops[i].output.g))}
  IN  CHOOSE i \in reached : \A j \in reached : j <= i

\* C19: of two zones, the one with the smaller or equal count is painted
\* with a colour of a bucket that is not higher, and with a height that is
\* not higher.
C19_EncodingMonotone ==
  \A i, j \in Zones :
    Trips(i) <= Trips(j)
    => /\ BucketOf(Paint[i].color) <= BucketOf(Paint[j].color)
       /\ (pitch # 0 => RatLeq(Paint[i].height[1], Paint[j].height[1]))

\* in the 3D view, two zones with counts between stops, in different buckets
C19_Witness ==
  /\ Zones = {1, 2}
  /\ pitch # 0
  /\ InSnapshot(1) /\ InSnapshot(2)
  /\ counts[1] = 501 /\ counts[2] = 999 + 2
  /\ BucketOf(Paint[1].color) = 3
  /\ BucketOf(Paint[2].color) = 4

\* C20: a count at or below 0 is painted as 0 is, with the first colour and
\* height 0; a count at or above 20000 is painted as 20000 is, with the last
\* colour and height 600.
C20_EncodingClamps ==
  \A i \in Zones :
    /\ Trips(i) <= 0
       => /\ IsColor(Paint[i].color, <<"F","F","E","D","A","0">>)
          /\ IsHeight(Paint[i].height, 0)
    /\ Trips(i) >= 20000
       => /\ IsColor(Paint[i].color, <<"8","0","0","0","2","6">>)
          /\ IsHeight(Paint[i].height, 600)

\* in the 3D view, a zone with a negative count and a zone with a count
\* above the last stop
C20_Witness ==
  /\ Zones = {1, 2}
  /\ pitch # 0
  /\ InSnapshot(1) /\ counts[1] = 0 - 1
  /\ InSnapshot(2) /\ counts[2] = 20001

\* the inputs of the stops of a paint expression, in their order
Inputs(stops) == [i \in DOMAIN stops |-> stops[i].input]
Breakpoints == <<0, 100, 500, 1000, 2000, 5000, 10000, 20000>>

\* C21: the colour table and the height table have the eight breakpoints
\* 0, 100, 500, 1000, 2000, 5000, 10000, 20000, in strictly increasing
\* order, and in every state of a session a zone whose count is the k-th
\* breakpoint is painted with the k-th colour and the k-th height.
C21_SameFixedBreakpoints ==
  /\ Inputs(ColorStops) = Breakpoints
  /\ Inputs(HeightStops) = Breakpoints
  /\ \A k \in 1..(Len(ColorStops) - 1) :
       ColorStops[k].input < ColorStops[k + 1].input
  /\ \A i \in Zones, k \in DOMAIN Breakpoints :
       Trips(i) = Breakpoints[k]
       => /\ SameColor(Paint[i].color,
                       [r |-> Whole(ColorStops[k].output.r),
                        g |-> Whole(ColorStops[k].output.g),
                        b |-> Whole(ColorStops[k].output.b)])
          /\ IsHeight(Paint[i].height, HeightStops[k].output)

\* in the 3D view, zone 1 has the second breakpoint as its count and zone 2
\* the last
C21_Witness ==
  /\ Zones = {1, 2}
  /\ pitch = 30
  /\ InSnapshot(1) /\ counts[1] = 100
  /\ InSnapshot(2) /\ counts[2] = 20000

\* C22: the colour of every zone is the same at pitch 0 as at any other
\* pitch, and a change of the pitch changes nothing but whether the layer
\* has a height.
C22_SameColorFlatAndElevated ==
  [][/\ \A i \in Zones, p \in Pitches :
          SameColor(Painted(rawZonesData, counts, 0)[i].color,
                    Painted(rawZonesData, counts, p)[i].color)
     /\ pitch' # pitch
        => /\ UNCHANGED <<loadVars, mapVars, panelVars, tipVars, dReqs,
                          mReqs, events>>
           /\ \A i \in Zones :
                LET after == Painted(rawZonesData', counts', pitch')[i]
                IN  /\ SameColor(Paint[i].color, after.color)
                    /\ (after.height = None) <=> (pitch' = 0)]_vars

\* the flat view, reached from the elevated one, with one zone painted
\* between two stops and the other not in the snapshot
C22_Witness ==
  /\ Zones = {1, 2}
  /\ pitch = 0
  /\ InSnapshot(1) /\ counts[1] = 101
  /\ ~InSnapshot(2)

\* C23: when a demand request is answered, the counts afterwards have the
\* zone ids of the rows of the answer and no others, each with the count of
\* its row; nothing of the counts before is left for an id the answer does
\* not have.
C23_SnapshotReplaced ==
  [][\A i \in DOMAIN dReqs :
       (dReqs[i].status = "pending" /\ dReqs'[i].status = "ok")
       => LET rows == dReqs'[i].rows
          IN  /\ DOMAIN counts' = {rows[k].PULocationID : k \in DOMAIN rows}
              /\ \A k \in DOMAIN rows :
                   counts'[rows[k].PULocationID] = rows[k].n_trips]_vars

\* two requests were answered, the one with a row for zone 3 first, and the
\* counts have no zone 3
C23_Witness ==
  /\ \E i \in DOMAIN dReqs :
       /\ dReqs[i].status = "ok"
       /\ \E k \in DOMAIN dReqs[i].rows : dReqs[i].rows[k].PULocationID = 3
  /\ \E i \in DOMAIN dReqs :
       /\ dReqs[i].status = "ok"
       /\ counts = BuildCounts(dReqs[i].rows)
  /\ DOMAIN counts = {1, 2}

\* the served body is JSON, but its type is not "FeatureCollection" or its
\* features field is not an array
WrongShape ==
  /\ asset.ok
  /\ asset.json
  /\ (asset.type # "FeatureCollection" \/ asset.features = None)

\* C24: for a document whose type is not "FeatureCollection" or whose
\* features field is not an array, rawZonesData stays null, and once the
\* load has ended the error is set and "Invalid GeoJSON data" was logged.
C24_WrongShapeFailsLoad ==
  WrongShape =>
    /\ rawZonesData = None
    /\ LoadEnded =>
         /\ error = "Failed to load taxi zones data"
         /\ console # None
         /\ console[1].message = "Invalid GeoJSON data"

\* the load of a document of type "Feature" that has a features array with
\* a valid feature has ended
C24_Witness ==
  /\ LoadEnded
  /\ asset.json
  /\ asset.type = "Feature"
  /\ asset.features # None
  /\ asset.features[1] # <<>>
  /\ error = "Failed to load taxi zones data"

\* C25: every feature of the loaded catalog has its zone, its borough and
\* its geometry: a feature that lacks one of them is not admitted, whatever
\* its location_id.
C25_PartialFeatureRejected ==
  rawZonesData # None =>
    \A i \in DOMAIN rawZonesData[1] :
      {"zone", "borough", "geometry"} \subseteq DOMAIN rawZonesData[1][i]

\* both loads of the document have ended, the one of MapView with success
BothLoaded == LoadEnded /\ rawZonesData # None /\ ~zonePending

\* the positions of the features of the catalog that have the zone id
WithId(id) ==
  {i \in DOMAIN rawZonesData[1] : CatalogId(rawZonesData[1][i]) = id}

C27_LaterDuplicateWins ==
  (BothLoaded /\ \E id \in DOMAIN zoneData : Cardinality(WithId(id)) > 1)
  => /\ Len(rawZonesData[1]) = Len(asset.features[1])
     /\ \A id \in DOMAIN zoneData :
          \E i \in WithId(id) :
            /\ \A j \in WithId(id) : j <= i
            /\ zoneData[id].zone = asset.features[1][i].zone
            /\ zoneData[id].borough = asset.features[1][i].borough

\* both loads of a document whose two features have the zone id 1 have ended
C27_Witness ==
  /\ BothLoaded
  /\ Len(rawZonesData[1]) = 2
  /\ WithId(1) = {1, 2}
  /\ rawZonesData[1][1].location_id # rawZonesData[1][2].location_id

\* C28: once rawZonesData is set, no step changes it.
C28_CatalogReadOnly ==
  [][rawZonesData # None => rawZonesData' = rawZonesData]_vars

\* with the catalog loaded, a zone was clicked at another hour in the flat
\* view, and the first demand request, the first metrics request and the
\* load of the panel have been answered
C28_Witness ==
  /\ rawZonesData = Some(loadZones(asset).features)
  /\ hour # InitHour
  /\ selectedZone # None
  /\ pitch = 0
  /\ ~zonePending
  /\ dReqs[1].status = "ok"
  /\ mReqs # <<>> /\ mReqs[1].status = "ok"

\* the i-th request of the log is pending before the step and not after
DemandAnswered(i) == dReqs[i].status = "pending" /\ dReqs'[i].status # "pending"
TipsAnswered(i) == tReqs[i].status = "pending" /\ tReqs'[i].status # "pending"

\* C29: in the tip-fetching MapView, the answer to a demand request, good
\* or bad, leaves tipInfo as it is; an entry of tipInfo is never removed,
\* and it is written only by the answer to a tips request for its zone.
C29_CacheKeptOnDemandUpdate ==
  [][/\ \A i \in DOMAIN dReqs : DemandAnswered(i) => tipInfo' = tipInfo
     /\ DOMAIN tipInfo \subseteq DOMAIN tipInfo'
     /\ \A id \in DOMAIN tipInfo' :
          (id \notin DOMAIN tipInfo \/ tipInfo'[id] # tipInfo[id])
          => \E i \in DOMAIN tReqs :
               TipsAnswered(i) /\ tReqs[i].call.zoneId = id]_vars

\* tipInfo has an average for zone 1, and one demand request has been
\* answered and another has failed
C29_Witness ==
  /\ 1 \in DOMAIN tipInfo
  /\ tipInfo[1] = Some(250)
  /\ \E i \in DOMAIN dReqs : dReqs[i].status = "ok"
  /\ \E i \in DOMAIN dReqs : dReqs[i].status = "failed"

\* the names of the features of the catalog that have the zone id
ZoneNamesOf(id) == {rawZonesData[1][j].zone : j \in WithId(id)}

\* C30: in the tip-fetching MapView, the answer to a tips request for a
\* zone other than the selected one leaves the selection, and so its
\* avgTip, as it is.
C30_TipOfOtherZoneIgnored ==
  [][\A i \in DOMAIN tReqs :
       ( /\ tReqs[i].status = "pending"
         /\ tReqs'[i].status = "ok"
         /\ selectedZone # None
         /\ selectedZone[1].zone \notin ZoneNamesOf(tReqs[i].call.zoneId) )
       => selectedZone' = selectedZone]_vars

\* C31: while the newest metrics request is the one for the selected zone
\* and the current hour and is still in flight, loading is true.
C31_LoadingWhileInFlight ==
  ( /\ mReqs # <<>>
    /\ IsCurrent(Len(mReqs))
    /\ LastOf(mReqs).status = "pending" )
  => loading

\* C32: when no demand request is in flight any more, the demand error is
\* set exactly if the request issued last has failed.
C32_ErrorFollowsLatestDemand ==
  (dReqs # <<>> /\ \A i \in DOMAIN dReqs : dReqs[i].status # "pending")
  => (error # NULL <=> LastOf(dReqs).status = "failed")

\* some metrics request that is in flight is answered
MetricsAnswer ==
  \/ \E i \in DOMAIN mReqs : MetricsResolve(i)
  \/ \E i \in DOMAIN mReqs, k \in 1..3 : MetricsReject(i, k)

\* The panel side of a session in which every metrics request that is in
\* flight is answered in the end.  The events stop by themselves: there are
\* at most MaxEvents of them.
FairPanel == SpecPanel /\ WF_vars(MetricsAnswer)

\* the stored results were written by a successful request for the zone
\* that is selected
ReadyForSelection ==
  \E i \in DOMAIN mReqs :
    /\ mReqs[i].status = "ok"
    /\ StoredBundle = Bundle(i)
    /\ mReqs[i].zoneId = selectedZone[1].locationId

LoadingSettles == <>[](~loading)

\* C33: when every metrics request is answered and the events have
\* stopped, from some point on loading is false and, if a zone is selected,
\* the panel shows the error or the results of a request for that zone.
C33_SettlesForSelection ==
  <>[]( /\ ~loading
        /\ selectedZone # None => (panelError # NULL \/ ReadyForSelection) )

\* C34: the three stored results are always those of one request that was
\* answered successfully (or all three are the initial empty ones), and a
\* request that fails, whichever of its three fetches was rejected, changes
\* none of them.
C34_ResultsWrittenTogether ==
  [][ /\ tripPerformance' = popularRoutes'
      /\ popularRoutes' = paymentAnalysis'
      /\ tripPerformance' # 0 => mReqs'[tripPerformance'].status = "ok"
      /\ \A i \in DOMAIN mReqs :
           Rejected(i) =>
             /\ tripPerformance' = tripPerformance
             /\ popularRoutes' = popularRoutes
             /\ paymentAnalysis' = paymentAnalysis ]_vars

\* one request was answered and its results are stored, another has failed
C34_Witness ==
  /\ Len(mReqs) = 2
  /\ mReqs[1].status = "ok"
  /\ mReqs[2].status = "failed"
  /\ StoredBundle = Bundle(1)
  /\ panelError # NULL
  /\ ~loading

\* A geometry document whose first zone has the id 0, and the panel side of
\* the sessions that may also be served this document.
ZeroDoc == Document("FeatureCollection", Some(FeatureList(<<<<"0">>, <<"1">>>>)))

InitZero == asset \in SessionAssets \cup {ZeroDoc} /\ InitState

SpecZero == InitZero /\ [][NextPanel]_vars

\* C35: whenever a zone is selected, zone 0 included, the metrics request
\* issued last is the one for that zone.
C35_SelectionIsFetched ==
  selectedZone # None
  => (mReqs # <<>> /\ LastOf(mReqs).zoneId = selectedZone[1].locationId)

\* C36: in the tip-fetching MapView a click on a zone that has an entry in
\* tipInfo, null entries included, issues no tips request and shows the
\* entry; and no step issues a tips request for a zone that has an entry.
C36_CachedZoneNotFetched ==
  [][ /\ \A i \in (IF rawZonesData = None THEN {} ELSE DOMAIN rawZonesData[1]) :
           LET id == parseInt(rawZonesData[1][i].LocationID)[1]
           IN  (ZoneClickTips(i) /\ id \in DOMAIN tipInfo)
               => /\ tReqs' = tReqs
                  /\ selectedZone'[1].avgTip = tipInfo[id]
      /\ Len(tReqs') > Len(tReqs)
         => LastOf(tReqs').call.zoneId \notin DOMAIN tipInfo ]_vars

\* the only tips request has failed, its zone has the entry null, and the
\* zone was clicked again: there is still one request
C36_Witness ==
  /\ events = 2
  /\ hour = InitHour
  /\ Len(tReqs) = 1
  /\ tReqs[1].status = "failed"
  /\ selectedZone # None
  /\ tReqs[1].call.zoneId \in DOMAIN tipInfo
  /\ tipInfo[tReqs[1].call.zoneId] = None
  /\ selectedZone[1].avgTip = None

\* C37: with a zone selected, the trips held in the selection are the
\* count of that zone in the current snapshot, 0 if it has none.
C37_SelectionTripsCurrent ==
  selectedZone # None
  => selectedZone[1].trips = CountOf(counts, selectedZone[1].locationId)

\* The AnalyticsPanel requests /taxi_zones.geojson by itself, after MapView
\* has: this request is answered with doc, and loadZoneData runs to its end.
ZoneDataAnswered(doc) ==
  /\ zonePending
  /\ zonePending' = FALSE
  /\ zoneData' = IF loadZoneData(doc).ok THEN loadZoneData(doc).zoneMap
                 ELSE zoneData
  /\ UNCHANGED <<loadVars, mapVars, panelVars, tipVars, pitch, dReqs, mReqs,
                 events>>

\* The sessions in which MapView was served a valid document and the
\* panel's own request is answered with any document.
InitLookup == asset = ValidDoc /\ InitState

NextLookup ==
  \/ Mount
  \/ GeometryLoaded
  \/ \E doc \in AllAssets(MaxFeatures) : ZoneDataAnswered(doc)
  \/ \E h \in Hours : HourChange(h)
  \/ \E i \in 1..MaxFeatures : rawZonesData # None /\ i \in DOMAIN rawZonesData[1] /\ ZoneClick(i)

SpecLookup == InitLookup /\ [][NextLookup]_vars

\* the features of doc whose location_id parseInt turns into NaN
NaNIds(doc) ==
  IF doc.ok /\ doc.json /\ doc.features # None
  THEN {k \in DOMAIN doc.features[1] :
          isNaN(parseInt(doc.features[1][k].location_id))}
  ELSE {}

\* C38: when the document given to loadZoneData has a feature whose
\* location_id is not an integer, the lookup is left empty.
C38_LookupFailsFast ==
  [][ \A doc \in AllAssets(MaxFeatures) :
        (ZoneDataAnswered(doc) /\ NaNIds(doc) # {}) => zoneData' = <<>> ]_vars

\* when both requests are served the same document, a document with such a
\* feature never reaches the panel: MapView renders no panel after its own
\* load has failed
LookupEmptyWhenRefused == Offending # {} => zoneData = <<>>

====
